---- MODULE Spec2Model ----
(***************************************************************************)
(* Model of the feasible-space engine of are_you_the_one.py: class Matrix  *)
(* (the array of all candidate matchups and its elimination operations)    *)
(* and class Season (the coordinator that applies ceremonies and truth     *)
(* booths and counts them).                                                *)
(*                                                                         *)
(* A row of the numpy array is a sequence of N integers; the code's column *)
(* index a (0-based) is position a + 1 of the sequence.  The array is a    *)
(* sequence of rows, in the order numpy keeps them.                        *)
(***************************************************************************)
EXTENDS Integers, Sequences, FiniteSets, TLC

\* Largest group size a season is built with.
MaxN == 3
\* Largest number of calls made on one season's engine.
MaxCalls == 2
\* Number of different rows a caller submits as a guess (all of them up to N = 3).
MaxGuesses == 6

VARIABLES
    n_guys,          \* len(guys) handed to Matrix.__init__
    n_girls,         \* len(girls) handed to Matrix.__init__
    constructed,     \* TRUE iff Matrix.__init__ returned (no error raised)
    N_matchups,      \* Matrix.N_matchups
    matrix,          \* Matrix._matrix, the sequence of surviving rows
    n_ceremonies,    \* Season._n_ceremonies
    n_truth_booths,  \* Season._n_truth_booths
    last,            \* the latest call: operation, arguments, the array before it, error raised
    truths,          \* history: the ground truths every applied evidence event was derived from
    calls            \* history: number of calls made so far

vars == <<n_guys, n_girls, constructed, N_matchups, matrix, n_ceremonies, n_truth_booths, last, truths, calls>>

----------------------------------------------------------------------------
\* Sequence helpers

RECURSIVE Concat(_)
\* The concatenation of a sequence of sequences.
Concat(ss) == IF Len(ss) = 0 THEN <<>> ELSE Head(ss) \o Concat(Tail(ss))

\* The sequence s without its i-th element.
Remove(s, i) == [j \in 1..(Len(s) - 1) |-> IF j < i THEN s[j] ELSE s[j + 1]]

\* The set of elements of a sequence.
Range(s) == {s[i] : i \in 1..Len(s)}

\* Variant: the range starts at 1.
arange_from_one(n) == [i \in 1..n |-> i]

\* np.arange(n)
arange(n) == [i \in 1..n |-> i - 1]

RECURSIVE permutations(_)
\* itertools.permutations(pool): all orderings of pool, in lexicographic
\* order of positions.
permutations(pool) ==
    IF Len(pool) = 0 THEN << <<>> >>
    ELSE Concat([i \in 1..Len(pool) |->
                   LET rest == permutations(Remove(pool, i))
                   IN  [k \in 1..Len(rest) |-> <<pool[i]>> \o rest[k]]])

\* Matrix._create_matrix
create_matrix(N) == permutations(arange(N))

----------------------------------------------------------------------------
\* numpy helpers

\* mask.sum() of a boolean vector
MaskSum(mask) == Cardinality({i \in 1..Len(mask) : mask[i]})

\* ~mask
Neg(mask) == [i \in 1..Len(mask) |-> ~mask[i]]

RECURSIVE BoolIndex(_, _)
\* m[mask]: the rows of m whose mask entry is True, in order.
BoolIndex(m, mask) ==
    IF Len(m) = 0 THEN <<>>
    ELSE (IF Head(mask) THEN <<Head(m)>> ELSE <<>>) \o BoolIndex(Tail(m), Tail(mask))

\* A column index numpy accepts on an array with N columns (negative wraps).
ValidColumn(N, a) == -N <= a /\ a < N

\* The 1-based position the column index a selects.
Col(N, a) == IF a < 0 THEN a + N + 1 ELSE a + 1

\* m[:, a] == b
column_mask(N, m, a, b) == [i \in 1..Len(m) |-> m[i][Col(N, a)] = b]

\* Shapes (rows, N) and (L,) broadcast together.
Broadcastable(N, L) == L = N \/ L = 1 \/ N = 1

\* Number of columns of np.equal(m, path): the broadcast width.
Width(N, L) == IF N = 1 THEN L ELSE N

\* Row i of np.equal(m, path), as the set of columns where it is True.
eq_row(N, r, path) ==
    {j \in 1..Width(N, Len(path)) :
        r[IF N = 1 THEN 1 ELSE j] = path[IF Len(path) = 1 THEN 1 ELSE j]}

----------------------------------------------------------------------------
\* Matrix operations as functions of the array (N columns)

\* Matrix.feasible_paths
feasible_paths(m) == Len(m)

\* Variant: the row is appended to the array.
append_path(N, m, path) == Append(m, path)

\* Variant: a row is dropped when it agrees with path in any column (.any for .all).
drop_path_any(N, m, path) ==
    LET mask == [i \in 1..Len(m) |-> Cardinality(eq_row(N, m[i], path)) > 0]
    IN  IF MaskSum(mask) > 0 THEN BoolIndex(m, Neg(mask)) ELSE m

\* Matrix.drop_path
drop_path(N, m, path) ==
    LET mask == [i \in 1..Len(m) |->
                    Cardinality(eq_row(N, m[i], path)) = Width(N, Len(path))]
    IN  IF MaskSum(mask) > 0 THEN BoolIndex(m, Neg(mask)) ELSE m

\* Variant: the mask is used without its negation.
keep_paths_containing_match(N, m, match) ==
    LET mask == column_mask(N, m, match[1], match[2])
    IN  IF MaskSum(mask) > 0 THEN BoolIndex(m, mask) ELSE m

\* Variant: only the first row the mask selects is dropped.
drop_first_path_containing_match(N, m, match) ==
    LET mask == column_mask(N, m, match[1], match[2])
        first == CHOOSE i \in 1..Len(m) : mask[i] /\ \A j \in 1..(i - 1) : ~mask[j]
    IN  IF MaskSum(mask) > 0 THEN Remove(m, first) ELSE m

\* Matrix.drop_paths_containing_match
drop_paths_containing_match(N, m, match) ==
    LET mask == column_mask(N, m, match[1], match[2])
    IN  IF MaskSum(mask) > 0 THEN BoolIndex(m, Neg(mask)) ELSE m

\* Variant: the column is assigned (=) where it should be compared (==).
assign_match_to_paths(N, m, match) ==
    [i \in 1..Len(m) |-> [m[i] EXCEPT ![Col(N, match[1])] = match[2]]]

\* Variant: the mask is applied without the guard on mask.sum().
keep_only_paths_containing_match(N, m, match) ==
    BoolIndex(m, column_mask(N, m, match[1], match[2]))

\* Matrix.drop_paths_not_containing_match
drop_paths_not_containing_match(N, m, match) ==
    LET mask == column_mask(N, m, match[1], match[2])
    IN  IF MaskSum(mask) > 0 THEN BoolIndex(m, mask) ELSE m

\* Matrix.drop_paths_not_containing_n_matches
drop_paths_not_containing_n_matches(N, m, path, n) ==
    LET mask == [i \in 1..Len(m) |-> Cardinality(eq_row(N, m[i], path)) = n]
    IN  IF MaskSum(mask) > 0 THEN BoolIndex(m, Neg(mask)) ELSE m

----------------------------------------------------------------------------
\* Probability query

\* np.equal called with a single operand: numpy raises TypeError.
np_equal_one_operand(mask) == [raised |-> "TypeError", value |-> 0]

\* Variant: the comparison's mask is summed directly.
count_match_summed(N, m, match) ==
    IF ~ValidColumn(N, match[1]) THEN [raised |-> "IndexError", value |-> 0]
    ELSE [raised |-> "none", value |-> MaskSum(column_mask(N, m, match[1], match[2]))]

\* Matrix._count_match_in_matrix: the column comparison is evaluated first
\* (IndexError on a bad column), its result is then handed to np.equal alone.
count_match_in_matrix(N, m, match) ==
    IF ~ValidColumn(N, match[1]) THEN [raised |-> "IndexError", value |-> 0]
    ELSE np_equal_one_operand(column_mask(N, m, match[1], match[2]))

\* Match.idx: the (guy.idx, girl.idx) tuple of a Match object.
idx(match) == <<match.guy, match.girl>>

\* Matrix.prob_match: the count divided by feasible_paths; a numpy integer
\* divided by 0 gives nan (num = den = 0), not an exception.
prob_match(N, m, match) ==
    LET count == count_match_in_matrix(N, m, idx(match))
    IN  IF count.raised # "none"
        THEN [raised |-> count.raised, num |-> 0, den |-> 0]
        ELSE [raised |-> "none", num |-> count.value, den |-> feasible_paths(m)]

----------------------------------------------------------------------------
\* Inputs

\* The permutations of 0..N-1.
Rows(N) == Range(create_matrix(N))

\* The rows a caller submits as a guess: the first MaxGuesses permutations.
Guesses(N) ==
    LET all == create_matrix(N)
    IN  {all[i] : i \in 1..(IF Len(all) < MaxGuesses THEN Len(all) ELSE MaxGuesses)}

\* Index tuples handed to the pair operations, one step out of range included.
Tuples(N) == (-1..N) \X (-1..N)

\* Counts handed to a ceremony, one step out of range included.
Counts(N) == -1..(N + 1)

\* Match objects of the season's contestants (Guy i, Girl j).
Matches(N) == [guy : 0..(N - 1), girl : 0..(N - 1)]

\* Path objects: the complete matchups, and the Path of no match.
Paths(N) == {{[guy |-> i - 1, girl |-> r[i]] : i \in 1..N} : r \in Guesses(N)} \cup {{}}

----------------------------------------------------------------------------
\* History of evidence

\* Number of positions where two rows of equal length agree.
Agreement(r, c) == Cardinality({i \in 1..Len(r) : r[i] = c[i]})

InRange(N, match) == match[1] \in 0..(N - 1) /\ match[2] \in 0..(N - 1)

\* The evidence event of kind op is what ground truth T reveals (a query
\* reveals nothing and contradicts nothing; any other call is no evidence).
DerivedFrom(T, op, match, path, n) ==
    CASE op = "confirm"  -> InRange(Len(T), match) /\ T[match[1] + 1] = match[2]
      [] op = "deny"     -> InRange(Len(T), match) /\ T[match[1] + 1] # match[2]
      [] op = "ceremony" -> Len(path) = Len(T) /\ Agreement(T, path) = n
      [] op = "prob_match" -> TRUE
      [] OTHER           -> FALSE

NoMatch == <<0, 0>>
NoPath == <<>>
NoPrefs == <<"", "">>

\* The record of a call; again: the call before it was the same call and
\* returned; prefs: the gender preferences handed to a Match constructor.
Record(op, match, path, n, before, raised, again) ==
    [op |-> op, match |-> match, path |-> path, n |-> n, before |-> before,
     raised |-> raised, again |-> again, prefs |-> NoPrefs]

Call(op, match, path, n, before, raised) ==
    Record(op, match, path, n, before, raised,
           last.op = op /\ last.match = match /\ last.path = path /\ last.n = n
           /\ last.raised = "none")

\* What a Matrix call leaves behind: the array, the record of the call, the
\* history; the coordinator's counters are not touched.
MatrixCall(op, match, path, n, raised, result) ==
    /\ matrix' = IF raised = "none" THEN result ELSE matrix
    /\ last' = Call(op, match, path, n, matrix, raised)
    /\ truths' = IF raised = "none"
                 THEN {T \in truths : DerivedFrom(T, op, match, path, n)}
                 ELSE truths
    /\ calls' = calls + 1
    /\ UNCHANGED <<n_guys, n_girls, constructed, N_matchups, n_ceremonies, n_truth_booths>>

----------------------------------------------------------------------------
\* Construction

\* Variant: the group sizes are not compared.
Matrix_init_unchecked(guys, girls) ==
    [raised |-> "none", N_matchups |-> girls, matrix |-> create_matrix(girls)]

\* Matrix.__init__ on len(guys), len(girls): unequal group sizes raise
\* NotImplementedError before any row is generated.
Matrix_init(guys, girls) ==
    IF guys # girls
    THEN [raised |-> "NotImplementedError", N_matchups |-> 0, matrix |-> <<>>]
    ELSE [raised |-> "none", N_matchups |-> girls, matrix |-> create_matrix(girls)]

\* The state after the constructor: the engine of a season, or none when the
\* constructor raised.
Init ==
    \E guys \in 1..MaxN, girls \in 1..MaxN :
        LET made == Matrix_init(guys, girls)
        IN  /\ n_guys = guys
            /\ n_girls = girls
            /\ constructed = (made.raised = "none")
            /\ N_matchups = made.N_matchups
            /\ matrix = made.matrix
            /\ n_ceremonies = 0
            /\ n_truth_booths = 0
            /\ last = Record(IF made.raised = "none" THEN "init" ELSE "init_failed",
                             NoMatch, NoPath, 0, <<>>, made.raised, FALSE)
            /\ truths = Range(made.matrix)
            /\ calls = 0

----------------------------------------------------------------------------
\* Calls on the Matrix

DropPath ==
    /\ constructed /\ calls < MaxCalls
    /\ \E path \in Guesses(N_matchups) :
        MatrixCall("drop", NoMatch, path, 0,
                   IF Broadcastable(N_matchups, Len(path)) THEN "none" ELSE "ValueError",
                   drop_path(N_matchups, matrix, path))

DropPathsContainingMatch ==
    /\ constructed /\ calls < MaxCalls
    /\ \E match \in Tuples(N_matchups) :
        MatrixCall("deny", match, NoPath, 0,
                   IF ValidColumn(N_matchups, match[1]) THEN "none" ELSE "IndexError",
                   drop_paths_containing_match(N_matchups, matrix, match))

DropPathsNotContainingMatch ==
    /\ constructed /\ calls < MaxCalls
    /\ \E match \in Tuples(N_matchups) :
        MatrixCall("confirm", match, NoPath, 0,
                   IF ValidColumn(N_matchups, match[1]) THEN "none" ELSE "IndexError",
                   drop_paths_not_containing_match(N_matchups, matrix, match))

\* The error drop_paths_not_containing_n_matches raises: the assert on n
\* comes first, then np.equal's broadcast.
n_matches_raised(N, path, n) ==
    IF ~(n <= Len(path)) THEN "AssertionError"
    ELSE IF ~Broadcastable(N, Len(path)) THEN "ValueError"
    ELSE "none"

DropPathsNotContainingNMatches ==
    /\ constructed /\ calls < MaxCalls
    /\ \E path \in Guesses(N_matchups), n \in Counts(N_matchups) :
        MatrixCall("ceremony", NoMatch, path, n,
                   n_matches_raised(N_matchups, path, n),
                   drop_paths_not_containing_n_matches(N_matchups, matrix, path, n))

ProbMatch ==
    /\ constructed /\ calls < MaxCalls
    /\ \E match \in Matches(N_matchups) :
        MatrixCall("prob_match", idx(match), NoPath, 0,
                   prob_match(N_matchups, matrix, match).raised,
                   matrix)

----------------------------------------------------------------------------
\* Calls on the Season (the coordinator)

\* Path.to_array: sorted() orders the matches by their Guy, and a Contestant
\* defines no '<' (TypeError as soon as two are compared); a single match is
\* not compared, and its Girl is no int8 value (TypeError); the Path of no
\* match gives the empty array.
to_array(matches) ==
    IF Cardinality(matches) >= 1
    THEN [raised |-> "TypeError", array |-> <<>>]
    ELSE [raised |-> "none", array |-> <<>>]

\* Variant: the counter is left as it is.
not_incremented(counter) == counter

\* self._n_ceremonies += 1, self._n_truth_booths += 1
incremented(counter) == counter + 1

\* Season.ceremony: the counter is incremented after the engine's call
\* returned.
SeasonCeremony ==
    /\ constructed /\ calls < MaxCalls
    /\ \E matchups \in Paths(N_matchups), n_perfect_matches \in Counts(N_matchups) :
        LET matchups_array == to_array(matchups)
            raised == IF matchups_array.raised # "none" THEN matchups_array.raised
                      ELSE n_matches_raised(N_matchups, matchups_array.array, n_perfect_matches)
        IN  /\ matrix' = IF raised = "none"
                         THEN drop_paths_not_containing_n_matches(
                                  N_matchups, matrix, matchups_array.array, n_perfect_matches)
                         ELSE matrix
            /\ n_ceremonies' = IF raised = "none" THEN incremented(n_ceremonies) ELSE n_ceremonies
            /\ last' = Call("season_ceremony", NoMatch, matchups_array.array,
                            n_perfect_matches, matrix, raised)
            /\ truths' = IF raised = "none" THEN {} ELSE truths
            /\ calls' = calls + 1
            /\ UNCHANGED <<n_guys, n_girls, constructed, N_matchups, n_truth_booths>>

\* Match.__getitem__: item 0 is the Guy, item 1 the Girl (Contestant objects).
match_getitem(match, index) ==
    IF index = 0 THEN [contestant |-> "Guy", idx |-> match.guy]
    ELSE [contestant |-> "Girl", idx |-> match.girl]

\* The error of indexing the array's columns with a Match's item 0: a
\* Contestant is no integer, so numpy raises IndexError.
match_column_raised(match) ==
    IF match_getitem(match, 0).contestant \in {"Guy", "Girl"} THEN "IndexError" ELSE "none"

\* Season.truth_booth: hands the Match object itself to the engine, which
\* indexes the array with match[0]; the counter is incremented after the
\* engine's call returned.
SeasonTruthBooth ==
    /\ constructed /\ calls < MaxCalls
    /\ \E match \in Matches(N_matchups), is_correct \in BOOLEAN :
        LET raised == match_column_raised(match)
        IN  /\ matrix' = IF raised # "none" THEN matrix
                         ELSE IF is_correct
                              THEN drop_paths_not_containing_match(N_matchups, matrix, idx(match))
                              ELSE drop_paths_containing_match(N_matchups, matrix, idx(match))
            /\ n_truth_booths' = IF raised = "none" THEN incremented(n_truth_booths) ELSE n_truth_booths
            /\ last' = Call(IF is_correct THEN "truth_booth_correct" ELSE "truth_booth_wrong",
                            idx(match), NoPath, 0, matrix, raised)
            /\ truths' = IF raised = "none"
                         THEN {T \in truths :
                                 DerivedFrom(T, IF is_correct THEN "confirm" ELSE "deny",
                                             idx(match), NoPath, 0)}
                         ELSE truths
            /\ calls' = calls + 1
            /\ UNCHANGED <<n_guys, n_girls, constructed, N_matchups, n_ceremonies>>

----------------------------------------------------------------------------
\* Contestants and matches

\* Contestant.__post_init__: the closed set of gender preferences.
Preferences == {"Male", "Female", "Both"}

\* Guy.__init__: a Contestant of sex 'Male'.
Guy(gender_preference) == [sex |-> "Male", gender_preference |-> gender_preference]

\* Girl.__init__: a Contestant of sex 'Female'.
Girl(gender_preference) == [sex |-> "Female", gender_preference |-> gender_preference]

\* Match.__init__: the assert on the two preferences.
Match_init(guy, girl) ==
    IF guy.gender_preference = girl.sex /\ girl.gender_preference = guy.sex
    THEN "none" ELSE "AssertionError"

\* A Match is constructed from a Guy and a Girl of any preferences; the
\* engine is not touched.
NewMatch ==
    /\ constructed /\ calls < MaxCalls
    /\ \E guy_preference \in Preferences, girl_preference \in Preferences :
        /\ last' = [Call("match_init", NoMatch, NoPath, 0, matrix,
                         Match_init(Guy(guy_preference), Girl(girl_preference)))
                      EXCEPT !.prefs = <<guy_preference, girl_preference>>]
        /\ calls' = calls + 1
        /\ UNCHANGED <<n_guys, n_girls, constructed, N_matchups, matrix,
                       n_ceremonies, n_truth_booths, truths>>

----------------------------------------------------------------------------

Next ==
    \/ DropPath
    \/ DropPathsContainingMatch
    \/ DropPathsNotContainingMatch
    \/ DropPathsNotContainingNMatches
    \/ ProbMatch
    \/ SeasonCeremony
    \/ SeasonTruthBooth
    \/ NewMatch

Spec == Init /\ [][Next]_vars

----------------------------------------------------------------------------
\* Properties

\* The latest call is an evidence call of kind op that returned, with
\* indices and count in range.
Applied(call, op) ==
    /\ call.op = op
    /\ call.raised = "none"
    /\ InRange(N_matchups, call.match)
    /\ 0 <= call.n /\ call.n <= N_matchups

Evidence == {"confirm", "deny", "ceremony"}

IsEvidence(call) == \E op \in Evidence : Applied(call, op)

\* The array after the evidence call `call` is applied to array m.
Apply(call, m) ==
    CASE call.op = "confirm"  -> drop_paths_not_containing_match(N_matchups, m, call.match)
      [] call.op = "deny"     -> drop_paths_containing_match(N_matchups, m, call.match)
      [] call.op = "ceremony" -> drop_paths_not_containing_n_matches(N_matchups, m, call.path, call.n)

\* C1: after drop_paths_not_containing_n_matches(c, n) with 0 <= n <= N the
\* surviving rows are exactly the prior rows that agree with c at exactly n
\* positions.
C1_CeremonyKeepsRowsWithNMatches ==
    Applied(last, "ceremony") =>
        Range(matrix) = {r \in Range(last.before) : Agreement(r, last.path) = last.n}

\* C2: after drop_paths_not_containing_match((a, b)) with (a, b) in range the
\* surviving rows are exactly the prior rows r with r[a] = b, also when no
\* prior row has r[a] = b.
C2_ConfirmKeepsRowsWithMatch ==
    Applied(last, "confirm") =>
        Range(matrix) = {r \in Range(last.before) : r[last.match[1] + 1] = last.match[2]}

\* C3: after drop_paths_containing_match((a, b)) with (a, b) in range the
\* surviving rows are exactly the prior rows r with r[a] # b.
C3_DenyKeepsRowsWithoutMatch ==
    Applied(last, "deny") =>
        Range(matrix) = {r \in Range(last.before) : r[last.match[1] + 1] # last.match[2]}

\* A denied pair has removed some rows of a space already narrowed, and kept others.
C3_Witness ==
    /\ Applied(last, "deny")
    /\ calls = 2
    /\ N_matchups = 3
    /\ Len(last.before) < 6
    /\ 0 < Len(matrix) /\ Len(matrix) < Len(last.before)

\* C4: soundness: a ground truth T from which every applied evidence event
\* (confirm, deny, ceremony) was derived is still a row of the array.
C4_Soundness ==
    (constructed /\ (last.op = "init" \/ IsEvidence(last))) => truths \subseteq Range(matrix)

\* C5: two confirmed pairs (a, b1), (a, b2) with b1 # b2 applied one after
\* the other leave an empty space.
C5_ContradictionDetected ==
    [][(/\ Applied(last, "confirm")
        /\ Applied(last', "confirm")
        /\ last'.match[1] = last.match[1]
        /\ last'.match[2] # last.match[2]) => feasible_paths(matrix') = 0]_vars

\* C6: in every state with feasible_paths = 0, prob_match raises an error
\* for every pair: it returns no number.
C6_ProbMatchFailsOnEmptySpace ==
    (constructed /\ feasible_paths(matrix) = 0) =>
        \A match \in Matches(N_matchups) :
            prob_match(N_matchups, matrix, match).raised # "none"

\* prob_match was called on an empty space, and raised.
C6_Witness ==
    /\ last.op = "prob_match"
    /\ feasible_paths(last.before) = 0
    /\ last.raised # "none"

\* C7: with feasible_paths > 0, prob_match for (a, b) returns the number of
\* rows r with r[a] = b over feasible_paths.
C7_ProbMatchIsFrequency ==
    (last.op = "prob_match" /\ feasible_paths(last.before) > 0) =>
        LET p == prob_match(N_matchups, last.before,
                            [guy |-> last.match[1], girl |-> last.match[2]])
        IN  /\ last.raised = "none"
            /\ p.raised = "none"
            /\ p.num = Cardinality({i \in 1..Len(last.before) :
                                      last.before[i][last.match[1] + 1] = last.match[2]})
            /\ p.den = feasible_paths(last.before)

\* C8: order-independence: when two evidence events are applied one after
\* the other and all evidence applied so far is derived from one ground
\* truth (none contradicts another), applying the two in the other order
\* leaves the same surviving rows.
C8_OrderIndependence ==
    [][(IsEvidence(last) /\ IsEvidence(last') /\ truths' # {}) =>
          Range(matrix') = Range(Apply(last, Apply(last', last.before)))]_vars

\* Applying the evidence call e to array m twice gives what applying it once gives.
Twice(e, m) == Apply(e, Apply(e, m)) = Apply(e, m)

\* C9: idempotence: an evidence event applied a second time in a row leaves
\* the surviving rows as they were after the first time, in the run so far
\* and for every event that can still be applied twice to the current array.
C9_Idempotence ==
    /\ (IsEvidence(last) /\ last.again) => matrix = last.before
    /\ (constructed /\ calls < MaxCalls) =>
          /\ \A op \in {"confirm", "deny"}, match \in Matches(N_matchups) :
                Twice([op |-> op, match |-> idx(match), path |-> NoPath, n |-> 0], matrix)
          /\ \A path \in Guesses(N_matchups), n \in 0..N_matchups :
                Twice([op |-> "ceremony", match |-> NoMatch, path |-> path, n |-> n], matrix)

\* An evidence event that had removed rows was applied a second time in a row.
C9_Witness ==
    /\ IsEvidence(last) /\ last.again
    /\ N_matchups = 3
    /\ 0 < Len(last.before) /\ Len(last.before) < 6

\* C10: monotonicity: after every call the surviving rows are a subset of
\* the rows before it, and feasible_paths has not increased.
C10_Monotonic ==
    (constructed /\ last.op # "init") =>
        /\ Range(matrix) \subseteq Range(last.before)
        /\ feasible_paths(matrix) <= feasible_paths(last.before)

\* An elimination removed rows of a space an earlier call had narrowed.
C10_Witness ==
    /\ last.op \in {"drop", "deny", "confirm", "ceremony"}
    /\ calls = 2
    /\ N_matchups = 3
    /\ Len(last.before) < 6
    /\ Len(matrix) < Len(last.before)

RECURSIVE Factorial(_)
Factorial(n) == IF n <= 0 THEN 1 ELSE n * Factorial(n - 1)

\* The sequences of length N that hold each of 0..N-1.
PermutationsOf(N) == {r \in [1..N -> 0..(N - 1)] : Range(r) = 0..(N - 1)}

\* C11: a Matrix built from N guys and N girls has feasible_paths = N! and
\* its rows are exactly the pairwise distinct permutations of 0..N-1.
C11_UniverseAtConstruction ==
    last.op = "init" =>
        /\ N_matchups = n_guys
        /\ feasible_paths(matrix) = Factorial(N_matchups)
        /\ Cardinality(Range(matrix)) = Len(matrix)
        /\ Range(matrix) = PermutationsOf(N_matchups)

\* A Matrix of three guys and three girls was built.
C11_Witness ==
    /\ last.op = "init" /\ constructed
    /\ n_guys = 3 /\ n_girls = 3
    /\ feasible_paths(matrix) = 6

\* C13: a Matrix of groups of unequal size is not built: the constructor
\* raises its error with no row generated, and no call is made on it after.
C13_UnequalGroupsRejected ==
    (n_guys # n_girls) =>
        /\ ~constructed
        /\ last.op = "init_failed" /\ last.raised = "NotImplementedError"
        /\ matrix = <<>>
        /\ calls = 0

\* The constructor was given two guys and three girls, and raised.
C13_Witness ==
    /\ n_guys = 2 /\ n_girls = 3
    /\ last.raised = "NotImplementedError"

\* The latest call handed invalid evidence to an elimination: a pair index
\* outside 0..N-1, or a count outside 0..N.
InvalidEvidence(call) ==
    \/ call.op \in {"confirm", "deny"} /\ ~InRange(N_matchups, call.match)
    \/ call.op = "ceremony" /\ ~(0 <= call.n /\ call.n <= N_matchups)

\* C12: an elimination call with invalid evidence raises an error and leaves
\* the rows as they were.
C12_InvalidEvidenceRejected ==
    InvalidEvidence(last) => (last.raised # "none" /\ matrix = last.before)

\* The two preferences are mutually satisfiable: each is the other's sex, or 'Both'.
Satisfiable(guy, girl) ==
    /\ guy.gender_preference \in {girl.sex, "Both"}
    /\ girl.gender_preference \in {guy.sex, "Both"}

\* C14: Match(guy, girl) is constructed if and only if the two preferences
\* are mutually satisfiable ('Both' satisfies either sex).
C14_MatchIffSatisfiable ==
    last.op = "match_init" =>
        (last.raised = "none" <=> Satisfiable(Guy(last.prefs[1]), Girl(last.prefs[2])))

Eliminations == {"drop", "deny", "confirm", "ceremony"}

\* C15: the empty state is terminal: a call made on an empty space leaves it
\* empty, and no elimination applied to an empty space gives a row.
C15_EmptyIsTerminal ==
    /\ (constructed /\ last.op # "init" /\ feasible_paths(last.before) = 0) =>
          feasible_paths(matrix) = 0
    /\ (constructed /\ feasible_paths(matrix) = 0) =>
          /\ \A match \in Tuples(N_matchups) :
                ValidColumn(N_matchups, match[1]) =>
                    /\ feasible_paths(drop_paths_containing_match(N_matchups, matrix, match)) = 0
                    /\ feasible_paths(drop_paths_not_containing_match(N_matchups, matrix, match)) = 0
          /\ \A path \in Guesses(N_matchups) :
                /\ feasible_paths(drop_path(N_matchups, matrix, path)) = 0
                /\ \A n \in Counts(N_matchups) :
                      n_matches_raised(N_matchups, path, n) = "none" =>
                          feasible_paths(drop_paths_not_containing_n_matches(
                                             N_matchups, matrix, path, n)) = 0

\* An elimination was called on an empty space, and returned.
C15_Witness ==
    /\ constructed
    /\ last.op \in Eliminations /\ last.raised = "none"
    /\ feasible_paths(last.before) = 0

\* C16: both counters start at 0; a completed Season.ceremony call adds 1 to
\* n_ceremonies and leaves n_truth_booths, a completed Season.truth_booth call
\* adds 1 to n_truth_booths and leaves n_ceremonies, and no other step
\* changes either.
C16_Counters ==
    /\ (n_ceremonies = 0 /\ n_truth_booths = 0)
    /\ [][/\ n_ceremonies' =
               IF last'.op = "season_ceremony" /\ last'.raised = "none"
               THEN n_ceremonies + 1 ELSE n_ceremonies
          /\ n_truth_booths' =
               IF last'.op \in {"truth_booth_correct", "truth_booth_wrong"} /\ last'.raised = "none"
               THEN n_truth_booths + 1 ELSE n_truth_booths]_vars

\* A Season.ceremony call completed and was counted.
C16_Witness ==
    /\ last.op = "season_ceremony" /\ last.raised = "none"
    /\ n_ceremonies = 1 /\ n_truth_booths = 0

\* C17: Season.truth_booth(m, True) leaves the rows the confirmed-pair
\* elimination on m.idx leaves, and Season.truth_booth(m, False) the rows the
\* denied-pair elimination on m.idx leaves.
C17_TruthBoothDispatch ==
    /\ last.op = "truth_booth_correct" =>
          Range(matrix) = Range(drop_paths_not_containing_match(N_matchups, last.before, last.match))
    /\ last.op = "truth_booth_wrong" =>
          Range(matrix) = Range(drop_paths_containing_match(N_matchups, last.before, last.match))

\* C18: drop_path(row) removes exactly the rows equal to row: the other rows
\* stay in place, feasible_paths goes down by 1 when row was present and the
\* array is unchanged when it was absent; the rows left are those whose
\* agreement count with row is not N.
C18_DropPathRemovesExactlyRow ==
    (last.op = "drop" /\ last.raised = "none") =>
        /\ Range(matrix) = Range(last.before) \ {last.path}
        /\ matrix = SelectSeq(last.before, LAMBDA r : Agreement(r, last.path) # N_matchups)
        /\ (last.path \in Range(last.before)) =>
              feasible_paths(matrix) = feasible_paths(last.before) - 1
        /\ (last.path \notin Range(last.before)) => matrix = last.before

\* A row was dropped from the full universe, and dropped again when absent.
C18_Witness ==
    /\ last.op = "drop" /\ last.raised = "none" /\ last.again
    /\ N_matchups = 3
    /\ feasible_paths(last.before) = 5
    /\ matrix = last.before

\* No row of array m holds the pair match.
NoRowHas(m, match) ==
    \A i \in 1..Len(m) : m[i][Col(N_matchups, match[1])] # match[2]

====
